---- MODULE Spec2Model ----
(***************************************************************************)
(* A model of @kineticcafe/result: the Result<T, E> class with its two     *)
(* concrete subclasses OkResult and ErrResult, the factories Ok and Err,   *)
(* and the free functions over results.                                    *)
(*                                                                         *)
(* Objects live in a heap (a sequence of records, an object's identity is  *)
(* its index).  Every method is an operator from the heap, the receiver    *)
(* and the arguments to an effect: the heap after the call, what the call  *)
(* returned or threw, and the callbacks it invoked, in order.              *)
(***************************************************************************)
EXTENDS Integers, Sequences, FiniteSets

VARIABLES heap, call, result, trace

vars == <<heap, call, result, trace>>

\* The number of Result objects a run may construct.
MaxHeap == 3

-----------------------------------------------------------------------------
(* JavaScript values *)

Num(n) == [t |-> "number", n |-> n]
Str(s) == [t |-> "string", s |-> s]
Bool(b) == [t |-> "boolean", b |-> b]
Ref(i) == [t |-> "object", id |-> i]
Fn(name) == [t |-> "function", name |-> name]
Array(items) == [t |-> "array", items |-> items]
Undefined == [t |-> "undefined"]

\* The payloads the callers construct results from (the values of the tests
\* and of the documentation's examples).
Payloads == {Num(10), Str("five")}

\* Callbacks returning a plain value: (v) => v, (v) => (v === 10 ? 'five' : 10).
ValueFns == {Fn("id"), Fn("swap")}

\* Callbacks returning a Result: the factories themselves.
ResultFns == {Fn("Ok"), Fn("Err")}

\* The steps of a chain of andThen: the factories, and steps that change the
\* value they are given before wrapping it.
ChainFns == ResultFns \cup {Fn("okSwap"), Fn("errSwap")}

\* The matchers of match: two plain handlers, or { ok: Ok, err: Err }.
Matchers ==
  {[ok |-> a, err |-> b] : a \in ValueFns, b \in ValueFns}
    \cup {[ok |-> Fn("Ok"), err |-> Fn("Err")]}

\* Predicates: (v) => v === 10.
Preds == {Fn("isTen")}

\* Error classes a caller may pass; Undefined leaves the default in place.
ErrorClasses == {"TypeError"}
ErrorClassArgs == {Undefined} \cup {Str(c) : c \in ErrorClasses}

Messages == {"no error", "expected error"}

\* The message argument of throwErrs: omitted, empty, plain, ending in a colon.
ThrowMessages == {Undefined, Str(""), Str("errors"), Str("errors:")}

Digit(d) ==
  CASE d = 0 -> "0" [] d = 1 -> "1" [] d = 2 -> "2" [] d = 3 -> "3" [] d = 4 -> "4"
    [] d = 5 -> "5" [] d = 6 -> "6" [] d = 7 -> "7" [] d = 8 -> "8" [] d = 9 -> "9"

RECURSIVE NumberToString(_)
NumberToString(n) ==
  IF n < 10 THEN Digit(n) ELSE NumberToString(n \div 10) \o Digit(n % 10)

\* `${v}`: the string conversion of a template literal.  A Result defines no
\* toString, so an object converts through Object.prototype.toString.
ToString(v) ==
  CASE v.t = "number" -> NumberToString(v.n)
    [] v.t = "string" -> v.s
    [] v.t = "boolean" -> IF v.b THEN "true" ELSE "false"
    [] v.t = "undefined" -> "undefined"
    [] v.t = "object" -> "[object Object]"

\* The truthiness test of `pred ? ... : ...` on an optional function argument.
Truthy(v) == v.t = "function"

-----------------------------------------------------------------------------
(* Effects of a call *)

Return(h, v, tr) ==
  [heap |-> h, result |-> [kind |-> "return", value |-> v], trace |-> tr]

Throw(h, cls, msg, tr) ==
  [heap |-> h, result |-> [kind |-> "throw", cls |-> cls, message |-> msg], trace |-> tr]

\* new OkResult(ok): this.ok = ok
OkResult(ok) == [cls |-> "OkResult", ok |-> ok]

\* new ErrResult(err): this.err = err
ErrResult(err) == [cls |-> "ErrResult", err |-> err]

\* A constructor without the guard: Result can be instantiated.
Result_constructor_Concrete(h, constructor) == Return(h, Undefined, <<>>)

\* constructor() { if (this.constructor === Result) throw new Error(...) },
\* run by new Result() and, through super(), by new OkResult and new ErrResult.
Result_constructor(h, constructor) ==
  IF constructor = "Result"
  THEN Throw(h, "Error", "Result is abstract, use Ok() or Err()", <<>>)
  ELSE Return(h, Undefined, <<>>)

\* abstractMethod(method): throw new Error(`Abstract method Result#${method}`)
Result_abstractMethod(h, method) ==
  Throw(h, "Error", "Abstract method Result#" \o method, <<>>)

\* The methods whose body in class Result is this.abstractMethod('<name>').
AbstractMethods ==
  {"isOk", "isErr", "map", "mapOr", "mapErr", "inspectOk", "inspectErr", "expect",
   "unwrap", "expectErr", "unwrapErr", "unwrapOr", "and", "andThen", "or", "orElse",
   "match"}

\* Ok = (ok) => new OkResult(ok)
Ok(h, ok) ==
  LET super == Result_constructor(h, "OkResult")
  IN  IF super.result.kind = "throw" THEN super
      ELSE Return(Append(super.heap, OkResult(ok)), Ref(Len(super.heap) + 1), <<>>)

\* Err = (err) => new ErrResult(err)
Err(h, err) ==
  LET super == Result_constructor(h, "ErrResult")
  IN  IF super.result.kind = "throw" THEN super
      ELSE Return(Append(super.heap, ErrResult(err)), Ref(Len(super.heap) + 1), <<>>)

\* (e) => errors.push(e), with errors as they are when it is called
Push(errors) == [t |-> "function", name |-> "(e) => errors.push(e)", errors |-> errors]

\* (v) => f(v).andThen(g)
Composed(f, g) == [t |-> "function", name |-> "(v) => f(v).andThen(g)", f |-> f, g |-> g]

\* A callback may call andThen, and andThen calls callbacks.
RECURSIVE Result_andThen(_, _, _)

\* fn(arg) for the callbacks of the model; the call is recorded with what it
\* was given and what it returned.
RECURSIVE Invoke(_, _, _)
Invoke(h, fn, arg) ==
  LET e == CASE fn.name = "id" -> Return(h, arg, <<>>)
             [] fn.name = "swap" ->
                  Return(h, IF arg = Num(10) THEN Str("five") ELSE Num(10), <<>>)
             [] fn.name = "isTen" -> Return(h, Bool(arg = Num(10)), <<>>)
             [] fn.name = "Ok" -> Ok(h, arg)
             [] fn.name = "Err" -> Err(h, arg)
             [] fn.name = "(e) => Err(e)" -> Err(h, arg)
             [] fn.name = "okSwap" ->
                  Ok(h, IF arg = Num(10) THEN Str("five") ELSE Num(10))
             [] fn.name = "errSwap" ->
                  Err(h, IF arg = Num(10) THEN Str("five") ELSE Num(10))
             [] fn.name = "(e) => errors.push(e)" ->
                  Return(h, Num(Len(fn.errors) + 1), <<>>)
             [] fn.name = "(v) => f(v).andThen(g)" ->
                  LET a == Invoke(h, fn.f, arg)
                  IN  Result_andThen(a.heap, a.result.value.id, fn.g)
  IN  [e EXCEPT !.trace = <<[fn |-> fn, arg |-> arg, ret |-> e.result.value]>>]

\* An unwrapFailed that joins the label and the value with a space only.
unwrapFailed_NoColon(h, message, err, errorClass) ==
  Throw(h, errorClass, message \o " " \o ToString(err), <<>>)

\* throw new errorClass(`${message}: ${err}`)
unwrapFailed(h, message, err, errorClass) ==
  Throw(h, errorClass, message \o ": " \o ToString(err), <<>>)

\* A default parameter value: used when the argument is undefined.
Default(arg, dflt) == IF arg = Undefined THEN dflt ELSE arg.s

-----------------------------------------------------------------------------
(* class OkResult *)

OkResult_isOk(h, self, pred) ==
  IF Truthy(pred) THEN Invoke(h, pred, h[self].ok) ELSE Return(h, Bool(TRUE), <<>>)

\* An isErr that consults the predicate on the success value.
OkResult_isErr_Asks(h, self, pred) ==
  IF pred = Undefined THEN Return(h, Bool(FALSE), <<>>)
  ELSE LET c == Invoke(h, pred, h[self].ok)
       IN  Return(c.heap, Bool(FALSE), c.trace)

OkResult_isErr(h, self, pred) == Return(h, Bool(FALSE), <<>>)

\* A map that stores fn's result in the receiver instead of in a new Ok.
OkResult_map_InPlace(h, self, fn) ==
  LET c == Invoke(h, fn, h[self].ok)
  IN  Return([c.heap EXCEPT ![self] = OkResult(c.result.value)], Ref(self), c.trace)

OkResult_map(h, self, fn) ==
  LET c == Invoke(h, fn, h[self].ok)
      k == Ok(c.heap, c.result.value)
  IN  Return(k.heap, k.result.value, c.trace)

\* A mapOr that treats an Ok as ErrResult does: it goes to the default.
OkResult_mapOr_Default(h, self, fn, defaultValue) ==
  IF defaultValue.t = "function" THEN Invoke(h, defaultValue, h[self].ok)
  ELSE Return(h, defaultValue, <<>>)

OkResult_mapOr(h, self, fn, defaultValue) == Invoke(h, fn, h[self].ok)

\* A mapErr that applies fn to the Ok value.
OkResult_mapErr_Applies(h, self, fn) ==
  LET c == Invoke(h, fn, h[self].ok)
      k == Ok(c.heap, c.result.value)
  IN  Return(k.heap, k.result.value, c.trace)

OkResult_mapErr(h, self, fn) == Ok(h, h[self].ok)

\* An inspectOk that behaves as map does: it wraps what fn returned.
OkResult_inspectOk_Maps(h, self, fn) == OkResult_map(h, self, fn)

OkResult_inspectOk(h, self, fn) ==
  LET c == Invoke(h, fn, h[self].ok)
  IN  Return(c.heap, Ref(self), c.trace)

OkResult_inspectErr(h, self, fn) == Return(h, Ref(self), <<>>)

OkResult_expect(h, self, message, errorClass) == Return(h, h[self].ok, <<>>)

OkResult_unwrap(h, self, errorClass) == Return(h, h[self].ok, <<>>)

OkResult_expectErr(h, self, message, errorClass) ==
  unwrapFailed(h, message, h[self].ok, Default(errorClass, "Error"))

\* An unwrapErr carrying unwrap's label.
OkResult_unwrapErr_WrongLabel(h, self, errorClass) ==
  unwrapFailed(h, "Called Result#unwrap on an Err value", h[self].ok,
               Default(errorClass, "ReferenceError"))

OkResult_unwrapErr(h, self, errorClass) ==
  unwrapFailed(h, "Called Result#unwrapErr on an Ok value", h[self].ok,
               Default(errorClass, "ReferenceError"))

OkResult_unwrapOr(h, self, defaultValue) == Return(h, h[self].ok, <<>>)

OkResult_unwrapOrElse(h, self, fn) == Return(h, h[self].ok, <<>>)

\* An and that behaves as or does: the Ok receiver wins.
OkResult_and_AsOr(h, self, other) == Ok(h, h[self].ok)

OkResult_and(h, self, other) == Return(h, other, <<>>)

\* An andThen that wraps what fn returned in a new Ok, as map does.
OkResult_andThen_AsMap(h, self, fn) == OkResult_map(h, self, fn)

OkResult_andThen(h, self, fn) == Invoke(h, fn, h[self].ok)

OkResult_or(h, self, other) == Ok(h, h[self].ok)

\* An orElse that runs the recovery on an Ok.
OkResult_orElse_Invokes(h, self, fn) == Invoke(h, fn, h[self].ok)

OkResult_orElse(h, self, fn) == Ok(h, h[self].ok)

\* A match that hands the Ok value to the err handler.
OkResult_match_ErrHandler(h, self, matcher) == Invoke(h, matcher.err, h[self].ok)

OkResult_match(h, self, matcher) == Invoke(h, matcher.ok, h[self].ok)

-----------------------------------------------------------------------------
(* class ErrResult *)

\* An isOk copied from OkResult.
ErrResult_isOk_AsOk(h, self, pred) ==
  IF Truthy(pred) THEN Invoke(h, pred, h[self].err) ELSE Return(h, Bool(TRUE), <<>>)

ErrResult_isOk(h, self, pred) == Return(h, Bool(FALSE), <<>>)

ErrResult_isErr(h, self, pred) ==
  IF Truthy(pred) THEN Invoke(h, pred, h[self].err) ELSE Return(h, Bool(TRUE), <<>>)

ErrResult_map(h, self, fn) == Err(h, h[self].err)

\* A mapOr without the callable test: the default is returned as it is.
ErrResult_mapOr_Literal(h, self, fn, defaultValue) == Return(h, defaultValue, <<>>)

\* isFunction(defaultValue) ? defaultValue(this.err) : defaultValue
ErrResult_mapOr(h, self, fn, defaultValue) ==
  IF defaultValue.t = "function" THEN Invoke(h, defaultValue, h[self].err)
  ELSE Return(h, defaultValue, <<>>)

ErrResult_mapErr(h, self, fn) ==
  LET c == Invoke(h, fn, h[self].err)
      k == Err(c.heap, c.result.value)
  IN  Return(k.heap, k.result.value, c.trace)

ErrResult_inspectOk(h, self, fn) == Return(h, Ref(self), <<>>)

\* An inspectErr that returns the receiver without calling fn.
ErrResult_inspectErr_Silent(h, self, fn) == Return(h, Ref(self), <<>>)

ErrResult_inspectErr(h, self, fn) ==
  LET c == Invoke(h, fn, h[self].err)
  IN  Return(c.heap, Ref(self), c.trace)

\* An expect that defaults to unwrap's error class.
ErrResult_expect_ReferenceError(h, self, message, errorClass) ==
  unwrapFailed(h, message, h[self].err, Default(errorClass, "ReferenceError"))

ErrResult_expect(h, self, message, errorClass) ==
  unwrapFailed(h, message, h[self].err, Default(errorClass, "Error"))

\* An unwrap that ignores the caller's error class.
ErrResult_unwrap_IgnoresClass(h, self, errorClass) ==
  unwrapFailed(h, "Called Result#unwrap on an Err value", h[self].err, "ReferenceError")

ErrResult_unwrap(h, self, errorClass) ==
  unwrapFailed(h, "Called Result#unwrap on an Err value", h[self].err,
               Default(errorClass, "ReferenceError"))

ErrResult_expectErr(h, self, message, errorClass) == Return(h, h[self].err, <<>>)

ErrResult_unwrapErr(h, self, errorClass) == Return(h, h[self].err, <<>>)

\* An unwrapOr that always calls its argument, as unwrapOrElse does.
ErrResult_unwrapOr_Calls(h, self, defaultValue) ==
  IF defaultValue.t = "function" THEN Invoke(h, defaultValue, h[self].err)
  ELSE Throw(h, "TypeError", "defaultValue is not a function", <<>>)

ErrResult_unwrapOr(h, self, defaultValue) ==
  IF defaultValue.t = "function" THEN Invoke(h, defaultValue, h[self].err)
  ELSE Return(h, defaultValue, <<>>)

\* An unwrapOrElse that hands back the recovery function uncalled.
ErrResult_unwrapOrElse_Uncalled(h, self, fn) == Return(h, fn, <<>>)

\* return fn(this.err)
ErrResult_unwrapOrElse(h, self, fn) == Invoke(h, fn, h[self].err)

ErrResult_and(h, self, other) == Err(h, h[self].err)

\* An andThen that runs the next step on an Err.
ErrResult_andThen_Invokes(h, self, fn) == Invoke(h, fn, h[self].err)

\* An andThen that turns the Err into an Ok, so that a chain goes on.
ErrResult_andThen_Recovers(h, self, fn) == Ok(h, h[self].err)

ErrResult_andThen(h, self, fn) == Err(h, h[self].err)

ErrResult_or(h, self, other) == Return(h, other, <<>>)

ErrResult_orElse(h, self, fn) == Invoke(h, fn, h[self].err)

\* A match that hands the Err value to the ok handler.
ErrResult_match_OkHandler(h, self, matcher) == Invoke(h, matcher.ok, h[self].err)

ErrResult_match(h, self, matcher) == Invoke(h, matcher.err, h[self].err)

-----------------------------------------------------------------------------
(* class Result: a method call dispatches on the receiver's class *)

IsOkResult(h, self) == h[self].cls = "OkResult"

Result_isOk(h, self, pred) ==
  IF IsOkResult(h, self) THEN OkResult_isOk(h, self, pred)
  ELSE ErrResult_isOk(h, self, pred)

Result_isErr(h, self, pred) ==
  IF IsOkResult(h, self) THEN OkResult_isErr(h, self, pred)
  ELSE ErrResult_isErr(h, self, pred)

Result_map(h, self, fn) ==
  IF IsOkResult(h, self) THEN OkResult_map(h, self, fn) ELSE ErrResult_map(h, self, fn)

Result_mapOr(h, self, fn, defaultValue) ==
  IF IsOkResult(h, self) THEN OkResult_mapOr(h, self, fn, defaultValue)
  ELSE ErrResult_mapOr(h, self, fn, defaultValue)

Result_mapErr(h, self, fn) ==
  IF IsOkResult(h, self) THEN OkResult_mapErr(h, self, fn)
  ELSE ErrResult_mapErr(h, self, fn)

Result_inspectOk(h, self, fn) ==
  IF IsOkResult(h, self) THEN OkResult_inspectOk(h, self, fn)
  ELSE ErrResult_inspectOk(h, self, fn)

Result_inspectErr(h, self, fn) ==
  IF IsOkResult(h, self) THEN OkResult_inspectErr(h, self, fn)
  ELSE ErrResult_inspectErr(h, self, fn)

Result_expect(h, self, message, errorClass) ==
  IF IsOkResult(h, self) THEN OkResult_expect(h, self, message, errorClass)
  ELSE ErrResult_expect(h, self, message, errorClass)

Result_unwrap(h, self, errorClass) ==
  IF IsOkResult(h, self) THEN OkResult_unwrap(h, self, errorClass)
  ELSE ErrResult_unwrap(h, self, errorClass)

Result_expectErr(h, self, message, errorClass) ==
  IF IsOkResult(h, self) THEN OkResult_expectErr(h, self, message, errorClass)
  ELSE ErrResult_expectErr(h, self, message, errorClass)

Result_unwrapErr(h, self, errorClass) ==
  IF IsOkResult(h, self) THEN OkResult_unwrapErr(h, self, errorClass)
  ELSE ErrResult_unwrapErr(h, self, errorClass)

Result_unwrapOr(h, self, defaultValue) ==
  IF IsOkResult(h, self) THEN OkResult_unwrapOr(h, self, defaultValue)
  ELSE ErrResult_unwrapOr(h, self, defaultValue)

Result_unwrapOrElse(h, self, fn) ==
  IF IsOkResult(h, self) THEN OkResult_unwrapOrElse(h, self, fn)
  ELSE ErrResult_unwrapOrElse(h, self, fn)

\* The deprecated methods class Result implements: return this.isOk(pred),
\* this.isErr(pred), this.mapOr(fn, defaultFn).
Result_isOkAnd(h, self, pred) == Result_isOk(h, self, pred)

Result_isErrAnd(h, self, pred) == Result_isErr(h, self, pred)

Result_mapOrElse(h, self, fn, defaultFn) == Result_mapOr(h, self, fn, defaultFn)

Result_and(h, self, other) ==
  IF IsOkResult(h, self) THEN OkResult_and(h, self, other)
  ELSE ErrResult_and(h, self, other)

Result_andThen(h, self, fn) ==
  IF IsOkResult(h, self) THEN OkResult_andThen(h, self, fn)
  ELSE ErrResult_andThen(h, self, fn)

Result_or(h, self, other) ==
  IF IsOkResult(h, self) THEN OkResult_or(h, self, other)
  ELSE ErrResult_or(h, self, other)

Result_orElse(h, self, fn) ==
  IF IsOkResult(h, self) THEN OkResult_orElse(h, self, fn)
  ELSE ErrResult_orElse(h, self, fn)

Result_match(h, self, matcher) ==
  IF IsOkResult(h, self) THEN OkResult_match(h, self, matcher)
  ELSE ErrResult_match(h, self, matcher)

-----------------------------------------------------------------------------
(* The free functions over results *)

\* r.andThen(fns[1]).andThen(fns[2])...: each andThen is called on what the
\* one before it returned, and the invocations add up in order.
RECURSIVE andThenChain(_, _, _)
andThenChain(h, self, fns) ==
  IF fns = <<>> THEN Return(h, Ref(self), <<>>)
  ELSE LET e == Result_andThen(h, self, Head(fns))
           rest == andThenChain(e.heap, e.result.value.id, Tail(fns))
       IN  [rest EXCEPT !.trace = e.trace \o rest.trace]

\* andThen as the remarks on match write it:
\* result.match({ ok: (t) => fn(t), err: (e) => Err(e) })
andThenByMatch(h, self, fn) ==
  Result_match(h, self, [ok |-> fn, err |-> Fn("(e) => Err(e)")])

\* A flattenResult that hands back what it was given.
flattenResult_Keeps(h, value) == Return(h, value, <<>>)

\* A flattenResult that unwraps whatever it is given.
flattenResult_Unwraps(h, value) == Result_unwrap(h, value.id, Undefined)

\* value.isOk() ? value.unwrap() : Err(value.unwrapErr())
flattenResult(h, value) ==
  LET t == Result_isOk(h, value.id, Undefined)
  IN  IF t.result.value.b
      THEN Result_unwrap(t.heap, value.id, Undefined)
      ELSE LET u == Result_unwrapErr(t.heap, value.id, Undefined)
           IN  IF u.result.kind = "throw" THEN u ELSE Err(u.heap, u.result.value)

\* A map that fills its array from the last element to the first.
Mapped_Reversed(h, out) ==
  LET bad == {i \in DOMAIN out : out[i].result.kind = "throw"}
  IN  IF bad # {}
      THEN out[CHOOSE i \in bad : \A j \in bad : i <= j]
      ELSE Return(h, Array([i \in DOMAIN out |-> out[Len(out) + 1 - i].result.value]), <<>>)

\* What results.map((v) => v.unwrap()) gives from the effects of the calls on
\* the elements: the values in order, or the first throw.
Mapped(h, out) ==
  LET bad == {i \in DOMAIN out : out[i].result.kind = "throw"}
  IN  IF bad # {}
      THEN out[CHOOSE i \in bad : \A j \in bad : i <= j]
      ELSE Return(h, Array([i \in DOMAIN out |-> out[i].result.value]), <<>>)

\* An unwrapErrs that asks every element, Ok or Err, for a boolean it ignores.
unwrapErrs_KeepsAll(h, results) ==
  LET kept == SelectSeq(results,
                        LAMBDA v : Result_isErr(h, v.id, Undefined).result.kind = "return")
  IN  Return(h, Array([i \in DOMAIN kept |->
                         IF IsOkResult(h, kept[i].id) THEN h[kept[i].id].ok
                         ELSE h[kept[i].id].err]), <<>>)

\* results.filter((v) => v.isErr()).map((v) => v.unwrapErr())
unwrapErrs(h, results) ==
  LET kept == SelectSeq(results,
                        LAMBDA v : Result_isErr(h, v.id, Undefined).result.value.b)
  IN  Mapped(h, [i \in DOMAIN kept |-> Result_unwrapErr(h, kept[i].id, Undefined)])

\* An unwrapOks that keeps the wrong variant and then unwraps it.
unwrapOks_KeepsErrs(h, results) ==
  LET kept == SelectSeq(results,
                        LAMBDA v : Result_isErr(h, v.id, Undefined).result.value.b)
  IN  Mapped(h, [i \in DOMAIN kept |-> Result_unwrap(h, kept[i].id, Undefined)])

\* results.filter((v) => v.isOk()).map((v) => v.unwrap())
unwrapOks(h, results) ==
  LET kept == SelectSeq(results,
                        LAMBDA v : Result_isOk(h, v.id, Undefined).result.value.b)
  IN  Mapped(h, [i \in DOMAIN kept |-> Result_unwrap(h, kept[i].id, Undefined)])

\* An endsWith that looks at the front of the string: startsWith.
EndsWith_AtFront(s, suffix) ==
  /\ Len(s) >= Len(suffix)
  /\ SubSeq(s, 1, Len(suffix)) = suffix

\* The earlier unwrapErrors, from its loop on:
\* for (const result of results) result.inspectErr((e) => errors.push(e))
\* and then return errors.  push has appended e when the callback was invoked.
RECURSIVE unwrapErrors_Loop(_, _, _)
unwrapErrors_Loop(h, results, errors) ==
  IF results = <<>> THEN Return(h, Array(errors), <<>>)
  ELSE LET e == Result_inspectErr(h, Head(results).id, Push(errors))
       IN  unwrapErrors_Loop(e.heap, Tail(results),
                             IF e.trace = <<>> THEN errors
                             ELSE Append(errors, e.trace[1].arg))

\* const errors = []; the loop; return errors
unwrapErrors_Earlier(h, results) == unwrapErrors_Loop(h, results, <<>>)

\* export const unwrapErrors = unwrapErrs
unwrapErrors(h, results) == unwrapErrs(h, results)

\* export const unwrapResults = unwrapOks
unwrapResults(h, results) == unwrapOks(h, results)

\* String.prototype.endsWith
EndsWith(s, suffix) ==
  /\ Len(s) >= Len(suffix)
  /\ SubSeq(s, Len(s) - Len(suffix) + 1, Len(s)) = suffix

\* A join that ends every element, the last one too, with the separator.
RECURSIVE Join_Trailing(_, _)
Join_Trailing(strs, sep) ==
  IF strs = <<>> THEN ""
  ELSE strs[1] \o sep \o Join_Trailing(Tail(strs), sep)

\* Array.prototype.join
RECURSIVE Join(_, _)
Join(strs, sep) ==
  IF strs = <<>> THEN ""
  ELSE IF Len(strs) = 1 THEN strs[1]
  ELSE strs[1] \o sep \o Join(Tail(strs), sep)

\* A throwErrs that tests the length of results, not of the errors in it.
throwErrs_OnAny(h, results, message, errorClass) ==
  LET e == unwrapErrs(h, results)
      errors == e.result.value.items
      msg == IF message = Undefined THEN "Errors found:\n"
             ELSE IF Len(message.s) = 0 THEN ""
             ELSE IF EndsWith(message.s, ":") THEN message.s \o "\n"
             ELSE message.s \o ":\n"
  IN  IF Len(results) > 0
      THEN Throw(e.heap, Default(errorClass, "Error"),
                 msg \o Join([i \in DOMAIN errors |-> " - " \o ToString(errors[i])],
                             "\n"),
                 <<>>)
      ELSE Return(e.heap, Undefined, <<>>)

throwErrs(h, results, message, errorClass) ==
  LET e == unwrapErrs(h, results)
  IN  IF e.result.kind = "throw" THEN e
      ELSE LET errors == e.result.value.items
               msg == IF message = Undefined THEN "Errors found:\n"
                      ELSE IF Len(message.s) = 0 THEN ""
                      ELSE IF EndsWith(message.s, ":") THEN message.s \o "\n"
                      ELSE message.s \o ":\n"
           IN  IF Len(errors) > 0
               THEN Throw(e.heap, Default(errorClass, "Error"),
                          msg \o Join([i \in DOMAIN errors |-> " - " \o ToString(errors[i])],
                                      "\n"),
                          <<>>)
               ELSE Return(e.heap, Undefined, <<>>)

\* export const unwrapAndThrowErrors = throwErrs
unwrapAndThrowErrors(h, results, message, errorClass) ==
  throwErrs(h, results, message, errorClass)

-----------------------------------------------------------------------------
(* The state machine: one action per operation of the library *)

Refs == {Ref(i) : i \in DOMAIN heap}

\* What a caller may store in a result: a payload or another result.
Values == Payloads \cup Refs

NoCall == [op |-> "none", self |-> 0, args |-> <<>>]
NoResult == [kind |-> "none"]

Init ==
  /\ heap = <<>>
  /\ call = NoCall
  /\ result = NoResult
  /\ trace = <<>>

\* The call `op` on receiver `self` with `args` took effect `e`.
Do(op, self, args, e) ==
  /\ call = NoCall
  /\ Len(e.heap) <= MaxHeap
  /\ heap' = e.heap
  /\ call' = [op |-> op, self |-> self, args |-> args]
  /\ result' = e.result
  /\ trace' = e.trace

\* new Result()
CallNewResult ==
  /\ call = NoCall
  /\ Do("new Result", 0, <<>>, Result_constructor(heap, "Result"))

\* Result.prototype[method].apply(self): the body class Result gives the
\* method, run on a result of either subclass.
CallResultPrototype ==
  /\ call = NoCall
  /\ \E self \in DOMAIN heap, method \in AbstractMethods :
    Do("Result.prototype", self, <<Str(method)>>, Result_abstractMethod(heap, method))

CallOk ==
  /\ call = NoCall
  /\ \E v \in Values : Do("Ok", 0, <<v>>, Ok(heap, v))

CallErr ==
  /\ call = NoCall
  /\ \E v \in Values : Do("Err", 0, <<v>>, Err(heap, v))

CallIsOk ==
  /\ call = NoCall
  /\ \E self \in DOMAIN heap, pred \in {Undefined} \cup Preds :
    Do("isOk", self, <<pred>>, Result_isOk(heap, self, pred))

CallIsErr ==
  /\ call = NoCall
  /\ \E self \in DOMAIN heap, pred \in {Undefined} \cup Preds :
    Do("isErr", self, <<pred>>, Result_isErr(heap, self, pred))

CallMap ==
  /\ call = NoCall
  /\ \E self \in DOMAIN heap, fn \in ValueFns :
    Do("map", self, <<fn>>, Result_map(heap, self, fn))

CallMapErr ==
  /\ call = NoCall
  /\ \E self \in DOMAIN heap, fn \in ValueFns :
    Do("mapErr", self, <<fn>>, Result_mapErr(heap, self, fn))

CallInspectOk ==
  /\ call = NoCall
  /\ \E self \in DOMAIN heap, fn \in ValueFns :
    Do("inspectOk", self, <<fn>>, Result_inspectOk(heap, self, fn))

CallInspectErr ==
  /\ call = NoCall
  /\ \E self \in DOMAIN heap, fn \in ValueFns :
    Do("inspectErr", self, <<fn>>, Result_inspectErr(heap, self, fn))

CallExpect ==
  /\ call = NoCall
  /\ \E self \in DOMAIN heap, m \in Messages, c \in ErrorClassArgs :
    Do("expect", self, <<Str(m), c>>, Result_expect(heap, self, m, c))

CallUnwrap ==
  /\ call = NoCall
  /\ \E self \in DOMAIN heap, c \in ErrorClassArgs :
    Do("unwrap", self, <<c>>, Result_unwrap(heap, self, c))

CallExpectErr ==
  /\ call = NoCall
  /\ \E self \in DOMAIN heap, m \in Messages, c \in ErrorClassArgs :
    Do("expectErr", self, <<Str(m), c>>, Result_expectErr(heap, self, m, c))

CallUnwrapErr ==
  /\ call = NoCall
  /\ \E self \in DOMAIN heap, c \in ErrorClassArgs :
    Do("unwrapErr", self, <<c>>, Result_unwrapErr(heap, self, c))

CallMapOr ==
  /\ call = NoCall
  /\ \E self \in DOMAIN heap, fn \in ValueFns, d \in Payloads \cup ValueFns :
    Do("mapOr", self, <<fn, d>>, Result_mapOr(heap, self, fn, d))

CallUnwrapOr ==
  /\ call = NoCall
  /\ \E self \in DOMAIN heap, d \in Payloads \cup ValueFns :
    Do("unwrapOr", self, <<d>>, Result_unwrapOr(heap, self, d))

CallIsOkAnd ==
  /\ call = NoCall
  /\ \E self \in DOMAIN heap, pred \in Preds :
    Do("isOkAnd", self, <<pred>>, Result_isOkAnd(heap, self, pred))

CallIsErrAnd ==
  /\ call = NoCall
  /\ \E self \in DOMAIN heap, pred \in Preds :
    Do("isErrAnd", self, <<pred>>, Result_isErrAnd(heap, self, pred))

CallMapOrElse ==
  /\ call = NoCall
  /\ \E self \in DOMAIN heap, fn \in ValueFns, defaultFn \in ValueFns :
    Do("mapOrElse", self, <<fn, defaultFn>>, Result_mapOrElse(heap, self, fn, defaultFn))

CallUnwrapOrElse ==
  /\ call = NoCall
  /\ \E self \in DOMAIN heap, fn \in ValueFns :
    Do("unwrapOrElse", self, <<fn>>, Result_unwrapOrElse(heap, self, fn))

CallAnd ==
  /\ call = NoCall
  /\ \E self \in DOMAIN heap, other \in Refs :
    Do("and", self, <<other>>, Result_and(heap, self, other))

CallAndThen ==
  /\ call = NoCall
  /\ \E self \in DOMAIN heap, fn \in ResultFns :
    Do("andThen", self, <<fn>>, Result_andThen(heap, self, fn))

\* The chains a caller writes: two steps or more, as many as there is room
\* for results.
Chains == UNION {[1..n -> ChainFns] : n \in 2..(MaxHeap - 1)}

CallAndThenChain ==
  /\ call = NoCall
  /\ \E self \in DOMAIN heap, fns \in Chains :
    Do("andThenChain", self, <<Array(fns)>>, andThenChain(heap, self, fns))

CallOr ==
  /\ call = NoCall
  /\ \E self \in DOMAIN heap, other \in Refs :
    Do("or", self, <<other>>, Result_or(heap, self, other))

CallOrElse ==
  /\ call = NoCall
  /\ \E self \in DOMAIN heap, fn \in ResultFns :
    Do("orElse", self, <<fn>>, Result_orElse(heap, self, fn))

CallMatch ==
  /\ call = NoCall
  /\ \E self \in DOMAIN heap, matcher \in Matchers :
    Do("match", self, <<matcher>>, Result_match(heap, self, matcher))

\* A nested result, as flattenResult's parameter type asks: an Err, or an Ok
\* holding a result.
Nested == {r \in Refs : IsOkResult(heap, r.id) => heap[r.id].ok.t = "object"}

CallFlattenResult ==
  /\ call = NoCall
  /\ \E value \in Nested : Do("flattenResult", value.id, <<value>>, flattenResult(heap, value))

\* The arrays of results the callers pass: runs of the constructed results,
\* in the order of construction or against it, and one result twice.
ResultLists ==
  LET all == [i \in DOMAIN heap |-> Ref(i)]
      runs == {SubSeq(all, i, j) : i \in 1..(Len(heap) + 1), j \in 0..Len(heap)}
  IN  runs \cup {[k \in DOMAIN r |-> r[Len(r) + 1 - k]] : r \in runs}
           \cup {<<r, r>> : r \in Refs}

CallUnwrapErrs ==
  /\ call = NoCall
  /\ \E results \in ResultLists :
    Do("unwrapErrs", 0, <<Array(results)>>, unwrapErrs(heap, results))

CallUnwrapOks ==
  /\ call = NoCall
  /\ \E results \in ResultLists :
    Do("unwrapOks", 0, <<Array(results)>>, unwrapOks(heap, results))

CallThrowErrs ==
  /\ call = NoCall
  /\ \E results \in ResultLists, m \in ThrowMessages, c \in ErrorClassArgs :
    Do("throwErrs", 0, <<Array(results), m, c>>, throwErrs(heap, results, m, c))

\* The caller goes on to its next statement: the call is over and what it
\* returned or threw is no longer at hand.  The heap stays.
Continue ==
  /\ call # NoCall
  /\ call' = NoCall
  /\ result' = NoResult
  /\ trace' = <<>>
  /\ UNCHANGED heap

Next ==
  \/ CallNewResult
  \/ CallResultPrototype
  \/ CallOk
  \/ CallErr
  \/ CallIsOk
  \/ CallIsErr
  \/ CallMap
  \/ CallMapErr
  \/ CallInspectOk
  \/ CallInspectErr
  \/ CallExpect
  \/ CallUnwrap
  \/ CallExpectErr
  \/ CallUnwrapErr
  \/ CallAnd
  \/ CallAndThen
  \/ CallAndThenChain
  \/ CallOr
  \/ CallOrElse
  \/ CallMatch
  \/ CallMapOr
  \/ CallUnwrapOr
  \/ CallIsOkAnd
  \/ CallIsErrAnd
  \/ CallMapOrElse
  \/ CallUnwrapOrElse
  \/ CallFlattenResult
  \/ CallUnwrapErrs
  \/ CallUnwrapOks
  \/ CallThrowErrs
  \/ Continue

Spec == Init /\ [][Next]_vars

-----------------------------------------------------------------------------
(* What the properties below read off a state *)

\* The value the result at index i holds.
Held(i) == IF IsOkResult(heap, i) THEN heap[i].ok ELSE heap[i].err

Returned(v) == result = [kind |-> "return", value |-> v]

Threw(cls, msg) == result = [kind |-> "throw", cls |-> cls, message |-> msg]

\* The call returned a result object equal to obj.
ReturnedResult(obj) ==
  /\ result.kind = "return"
  /\ result.value.t = "object"
  /\ result.value.id \in DOMAIN heap
  /\ heap[result.value.id] = obj

\* The call invoked fn once, on arg, and nothing else.
InvokedOnce(fn, arg) ==
  /\ Len(trace) = 1
  /\ trace[1].fn = fn
  /\ trace[1].arg = arg

\* isOk() and isErr() without a predicate, as booleans.
IsOkOf(i) == Result_isOk(heap, i, Undefined).result = [kind |-> "return", value |-> Bool(TRUE)]
IsErrOf(i) == Result_isErr(heap, i, Undefined).result = [kind |-> "return", value |-> Bool(TRUE)]
NotOkOf(i) == Result_isOk(heap, i, Undefined).result = [kind |-> "return", value |-> Bool(FALSE)]
NotErrOf(i) == Result_isErr(heap, i, Undefined).result = [kind |-> "return", value |-> Bool(FALSE)]

-----------------------------------------------------------------------------
\* C1: every result is exactly one variant.  What Ok(v) returns answers
\* isOk() with true and isErr() with false, what Err(v) returns answers
\* isErr() with true and isOk() with false, and every result any operation
\* has constructed answers exactly one of isOk() and isErr() with true.
C1_ExactlyOneVariant ==
  /\ \A i \in DOMAIN heap : (IsOkOf(i) /\ NotErrOf(i)) \/ (IsErrOf(i) /\ NotOkOf(i))
  /\ call.op = "Ok" => IsOkOf(result.value.id) /\ NotErrOf(result.value.id)
  /\ call.op = "Err" => IsErrOf(result.value.id) /\ NotOkOf(result.value.id)
  /\ (call.op = "isOk" /\ call.args[1] = Undefined /\ Returned(Bool(TRUE)))
       => IsOkOf(call.self) /\ NotErrOf(call.self)
  /\ (call.op = "isErr" /\ call.args[1] = Undefined /\ Returned(Bool(TRUE)))
       => IsErrOf(call.self) /\ NotOkOf(call.self)

\* An Err built by a combinator from an Err was asked isOk() and said no.
C1_Witness ==
  /\ call.op = "isOk"
  /\ call.args[1] = Undefined
  /\ Returned(Bool(FALSE))
  /\ \E i \in DOMAIN heap : IsOkOf(i)
  /\ \E i \in DOMAIN heap : IsErrOf(i) /\ Held(i).t = "object"

-----------------------------------------------------------------------------
\* A step leaves every result that exists as it is.
C2_Frame == \A i \in DOMAIN heap : i \in DOMAIN heap' /\ heap'[i] = heap[i]

\* C2 (as claimed): results are immutable, and every operation returns a
\* result other than its receiver, or a plain value.
C2_ReturnsAnother == [][C2_Frame /\ (result'.kind = "return" => result'.value # Ref(call'.self))]_vars

\* C2 (amended): no operation changes the variant or the held value of any
\* result that exists; Ok, Err, map and mapErr return a result constructed by
\* the call; and a call returns its own receiver only from inspectOk and
\* inspectErr, which always do, or when the receiver was itself passed as an
\* argument (and, or, mapOr, unwrapOr) or handed back by a callback.
C2_Immutable ==
  [][/\ C2_Frame
     /\ call'.op \in {"Ok", "Err", "map", "mapErr"}
          => /\ result'.kind = "return"
             /\ result'.value.t = "object"
             /\ result'.value.id \in DOMAIN heap' \ DOMAIN heap
     /\ call'.op \in {"inspectOk", "inspectErr"} => result' = [kind |-> "return", value |-> Ref(call'.self)]
     /\ (result'.kind = "return" /\ result'.value = Ref(call'.self))
          => \/ call'.op \in {"inspectOk", "inspectErr"}
             \/ /\ call'.op \in {"and", "or", "mapOr", "unwrapOr"}
                /\ \E k \in DOMAIN call'.args : call'.args[k] = Ref(call'.self)
             \/ Len(trace') = 1 /\ trace'[1].ret = Ref(call'.self)]_vars

\* Ok(10).map(swap) returned a new Ok('five') and the receiver still holds 10.
C2_Witness ==
  /\ call.op = "map"
  /\ call.args[1] = Fn("swap")
  /\ heap[call.self] = OkResult(Num(10))
  /\ ReturnedResult(OkResult(Str("five")))
  /\ result.value.id # call.self

-----------------------------------------------------------------------------
\* C3: andThen on an Ok holding v invokes fn once, on v, and returns what fn
\* returned (Ok(v) for fn = Ok, Err(v) for fn = Err); andThen on an Err
\* holding e never invokes fn and returns an Err holding e.
C3_AndThen ==
  call.op = "andThen" =>
    IF IsOkResult(heap, call.self)
    THEN /\ InvokedOnce(call.args[1], heap[call.self].ok)
         /\ Returned(trace[1].ret)
         /\ call.args[1] = Fn("Ok") => ReturnedResult(OkResult(heap[call.self].ok))
         /\ call.args[1] = Fn("Err") => ReturnedResult(ErrResult(heap[call.self].ok))
    ELSE /\ trace = <<>>
         /\ ReturnedResult(ErrResult(heap[call.self].err))

\* Err('five').andThen(Ok) returned an Err('five').
C3_Witness ==
  /\ call.op = "andThen"
  /\ call.args[1] = Fn("Ok")
  /\ heap[call.self] = ErrResult(Str("five"))
  /\ ReturnedResult(ErrResult(Str("five")))

-----------------------------------------------------------------------------
-----------------------------------------------------------------------------
\* C5: map on an Ok holding v invokes f once, on v, and returns an Ok of
\* what f returned; on an Err it never invokes f and returns an Err of the
\* same value.  mapErr does the same with the variants exchanged.  The
\* result's variant is the receiver's.
C5_MapOwnVariant ==
  /\ call.op = "map" =>
       /\ IF IsOkResult(heap, call.self)
          THEN /\ InvokedOnce(call.args[1], heap[call.self].ok)
               /\ ReturnedResult(OkResult(trace[1].ret))
               /\ call.args[1] = Fn("id") => ReturnedResult(heap[call.self])
               /\ call.args[1] = Fn("swap") => ~ReturnedResult(heap[call.self])
          ELSE /\ trace = <<>>
               /\ ReturnedResult(heap[call.self])
       /\ heap[result.value.id].cls = heap[call.self].cls
  /\ call.op = "mapErr" =>
       /\ IF IsOkResult(heap, call.self)
          THEN /\ trace = <<>>
               /\ ReturnedResult(heap[call.self])
          ELSE /\ InvokedOnce(call.args[1], heap[call.self].err)
               /\ ReturnedResult(ErrResult(trace[1].ret))
               /\ call.args[1] = Fn("id") => ReturnedResult(heap[call.self])
               /\ call.args[1] = Fn("swap") => ~ReturnedResult(heap[call.self])
       /\ heap[result.value.id].cls = heap[call.self].cls

\* Ok('five').mapErr(swap) returned an Ok('five') and swap was not called.
C5_Witness ==
  /\ call.op = "mapErr"
  /\ call.args[1] = Fn("swap")
  /\ heap[call.self] = OkResult(Str("five"))
  /\ ReturnedResult(OkResult(Str("five")))

-----------------------------------------------------------------------------
\* C6: match invokes one handler, once: matcher.ok on an Ok, matcher.err on
\* an Err, with the held value; it returns what the handler returned, as it
\* is; with two identity handlers it returns the held value.
C6_Match ==
  call.op = "match" =>
    /\ InvokedOnce(IF IsOkResult(heap, call.self) THEN call.args[1].ok ELSE call.args[1].err,
                   Held(call.self))
    /\ Returned(trace[1].ret)
    /\ call.args[1] = [ok |-> Fn("id"), err |-> Fn("id")] => Returned(Held(call.self))
    /\ call.args[1].ok = Fn("swap") /\ heap[call.self] = OkResult(Num(10))
         => Returned(Str("five"))
    /\ call.args[1].err = Fn("swap") /\ heap[call.self] = ErrResult(Str("five"))
         => Returned(Num(10))

\* Err('five').match({ ok: id, err: swap }) returned 10.
C6_Witness ==
  /\ call.op = "match"
  /\ call.args[1] = [ok |-> Fn("id"), err |-> Fn("swap")]
  /\ heap[call.self] = ErrResult(Str("five"))
  /\ Returned(Num(10))

-----------------------------------------------------------------------------
\* C7: unwrap returns the held value of an Ok; on an Err holding e it throws
\* an error of the class given, ReferenceError when none is given, with the
\* message 'Called Result#unwrap on an Err value: ' followed by e as a string.
C7_Unwrap ==
  call.op = "unwrap" =>
    IF IsOkResult(heap, call.self)
    THEN Returned(heap[call.self].ok)
    ELSE /\ Threw(IF call.args[1] = Undefined THEN "ReferenceError" ELSE call.args[1].s,
                  "Called Result#unwrap on an Err value: " \o ToString(heap[call.self].err))
         /\ heap[call.self].err = Num(10)
              => result.message = "Called Result#unwrap on an Err value: 10"
         /\ heap[call.self].err = Str("five")
              => result.message = "Called Result#unwrap on an Err value: five"

\* Err(10).unwrap(TypeError) threw a TypeError.
C7_Witness ==
  /\ call.op = "unwrap"
  /\ call.args[1] = Str("TypeError")
  /\ heap[call.self] = ErrResult(Num(10))
  /\ Threw("TypeError", "Called Result#unwrap on an Err value: 10")

-----------------------------------------------------------------------------
\* C8: unwrapErr returns the held value of an Err; on an Ok holding v it
\* throws an error of the class given, ReferenceError when none is given,
\* with the message 'Called Result#unwrapErr on an Ok value: ' followed by v
\* as a string.
C8_UnwrapErr ==
  call.op = "unwrapErr" =>
    IF IsOkResult(heap, call.self)
    THEN /\ Threw(IF call.args[1] = Undefined THEN "ReferenceError" ELSE call.args[1].s,
                  "Called Result#unwrapErr on an Ok value: " \o ToString(heap[call.self].ok))
         /\ heap[call.self].ok = Num(10)
              => result.message = "Called Result#unwrapErr on an Ok value: 10"
         /\ heap[call.self].ok.t = "object"
              => result.message = "Called Result#unwrapErr on an Ok value: [object Object]"
    ELSE Returned(heap[call.self].err)

\* Ok(10).unwrapErr() threw a ReferenceError.
C8_Witness ==
  /\ call.op = "unwrapErr"
  /\ call.args[1] = Undefined
  /\ heap[call.self] = OkResult(Num(10))
  /\ Threw("ReferenceError", "Called Result#unwrapErr on an Ok value: 10")

-----------------------------------------------------------------------------
\* What expect and expectErr do: on the wrong variant, throw the labelled
\* error; otherwise return the held value.
C9_Labelled(wrong) ==
  IF wrong
  THEN /\ Threw(IF call.args[2] = Undefined THEN "Error" ELSE call.args[2].s,
                call.args[1].s \o ": " \o ToString(Held(call.self)))
       /\ call.args[1] = Str("no error") /\ Held(call.self) = Num(10)
            => result.message = "no error: 10"
  ELSE Returned(Held(call.self))

\* C9: expect returns the held value of an Ok and expectErr that of an Err;
\* expect on an Err and expectErr on an Ok throw an error of the class given,
\* Error when none is given, whose message is the message given, then ': ',
\* then the held value as a string.
C9_Expect ==
  /\ call.op = "expect" => C9_Labelled(~IsOkResult(heap, call.self))
  /\ call.op = "expectErr" => C9_Labelled(IsOkResult(heap, call.self))

\* Ok(10).expectErr('expected error') threw Error('expected error: 10').
C9_Witness ==
  /\ call.op = "expectErr"
  /\ call.args = <<Str("expected error"), Undefined>>
  /\ heap[call.self] = OkResult(Num(10))
  /\ Threw("Error", "expected error: 10")

-----------------------------------------------------------------------------
RaisingOps == {"expect", "expectErr", "unwrap", "unwrapErr"}

\* The error class argument of a raising call.
ErrorClassArg == IF call.op \in {"expect", "expectErr"} THEN call.args[2] ELSE call.args[1]

\* C10 (as claimed): expect, expectErr, unwrap and unwrapErr, called without
\* an error class, throw one same kind of error, kept for extraction on the
\* wrong variant, that is not the general-purpose Error.
C10_DistinctKind ==
  (call.op \in RaisingOps /\ result.kind = "throw" /\ ErrorClassArg = Undefined)
    => result.cls = "ReferenceError"

\* C10 (amended): called without an error class, unwrap and unwrapErr throw a
\* ReferenceError, which is not the general-purpose Error, while expect and
\* expectErr throw the general-purpose Error; a class the caller gives is the
\* class thrown by all four.
C10_Defaults ==
  (call.op \in RaisingOps /\ result.kind = "throw") =>
    result.cls = IF ErrorClassArg # Undefined THEN ErrorClassArg.s
                 ELSE IF call.op \in {"unwrap", "unwrapErr"} THEN "ReferenceError"
                 ELSE "Error"

\* Err(10).expect('no error') threw a general-purpose Error.
C10_Witness ==
  /\ call.op = "expect"
  /\ call.args = <<Str("no error"), Undefined>>
  /\ heap[call.self] = ErrResult(Num(10))
  /\ Threw("Error", "no error: 10")

-----------------------------------------------------------------------------
\* C11: mapOr returns a plain value.  On an Ok holding v it invokes fn once,
\* on v, returns what fn returned and leaves the default alone, callable or
\* not; on an Err holding e it never invokes fn and returns d(e), d invoked
\* once, when the default d is a function, and d itself otherwise.  A
\* function given as the default is never what an Err returns.
C11_MapOr ==
  call.op = "mapOr" =>
    IF IsOkResult(heap, call.self)
    THEN /\ InvokedOnce(call.args[1], heap[call.self].ok)
         /\ Returned(trace[1].ret)
         /\ call.args[1] = Fn("id") => Returned(heap[call.self].ok)
         /\ call.args[1] = Fn("swap") => ~Returned(heap[call.self].ok)
    ELSE IF call.args[2].t = "function"
    THEN /\ InvokedOnce(call.args[2], heap[call.self].err)
         /\ Returned(trace[1].ret)
         /\ ~Returned(call.args[2])
         /\ call.args[2] = Fn("id") => Returned(heap[call.self].err)
         /\ call.args[2] = Fn("swap") => ~Returned(heap[call.self].err)
    ELSE /\ trace = <<>>
         /\ Returned(call.args[2])

\* Err(10).mapOr(id, swap) returned 'five': swap was called, id was not.
C11_Witness ==
  /\ call.op = "mapOr"
  /\ call.args = <<Fn("id"), Fn("swap")>>
  /\ heap[call.self] = ErrResult(Num(10))
  /\ Returned(Str("five"))
  /\ InvokedOnce(Fn("swap"), Num(10))

-----------------------------------------------------------------------------
\* C12: unwrapOr on an Ok holding v returns v and never invokes the default;
\* on an Err holding e it returns d(e), d invoked once, when the default d
\* is a function, and d itself otherwise; it never throws.
C12_UnwrapOr ==
  call.op = "unwrapOr" =>
    /\ result.kind = "return"
    /\ IF IsOkResult(heap, call.self)
       THEN /\ trace = <<>>
            /\ Returned(heap[call.self].ok)
       ELSE IF call.args[1].t = "function"
       THEN /\ InvokedOnce(call.args[1], heap[call.self].err)
            /\ Returned(trace[1].ret)
            /\ call.args[1] = Fn("id") => Returned(heap[call.self].err)
            /\ call.args[1] = Fn("swap") => ~Returned(heap[call.self].err)
       ELSE /\ trace = <<>>
            /\ Returned(call.args[1])

\* Err(10).unwrapOr('five') returned 'five' and called nothing.
C12_Witness ==
  /\ call.op = "unwrapOr"
  /\ call.args = <<Str("five")>>
  /\ heap[call.self] = ErrResult(Num(10))
  /\ Returned(Str("five"))
  /\ trace = <<>>

-----------------------------------------------------------------------------
\* C13: and / or choose by the receiver's variant alone.  and on an Ok
\* returns the argument, whatever its variant, and on an Err holding e
\* returns an Err holding e; or on an Ok holding v returns an Ok holding v,
\* and on an Err returns the argument, whatever its variant.
C13_AndOr ==
  /\ call.op = "and" =>
       /\ trace = <<>>
       /\ IF IsOkResult(heap, call.self)
          THEN Returned(call.args[1])
          ELSE ReturnedResult(ErrResult(heap[call.self].err))
  /\ call.op = "or" =>
       /\ trace = <<>>
       /\ IF IsOkResult(heap, call.self)
          THEN ReturnedResult(OkResult(heap[call.self].ok))
          ELSE Returned(call.args[1])

\* Ok(10).and(o) returned o, an Err that is not the receiver.
C13_Witness ==
  /\ call.op = "and"
  /\ heap[call.self] = OkResult(Num(10))
  /\ call.args[1] # Ref(call.self)
  /\ ~IsOkResult(heap, call.args[1].id)
  /\ Returned(call.args[1])

-----------------------------------------------------------------------------
\* C14: with a predicate p, isOk on an Ok holding v and isErr on an Err
\* holding v invoke p once, on v, and return what p returned; isOk on an Err
\* and isErr on an Ok return false without invoking p.  No call invokes p
\* more than once.
C14_PredicateForms ==
  (call.op \in {"isOk", "isErr"} /\ call.args[1] # Undefined) =>
    /\ Len(trace) <= 1
    /\ IF (call.op = "isOk") = IsOkResult(heap, call.self)
       THEN /\ InvokedOnce(call.args[1], Held(call.self))
            /\ Returned(trace[1].ret)
            /\ (call.args[1] = Fn("isTen"))
                 => Returned(Bool(Held(call.self) = Num(10)))
       ELSE /\ trace = <<>>
            /\ Returned(Bool(FALSE))

\* Ok(10).isErr(isTen) answered false and never asked isTen, which would
\* have said true.
C14_Witness ==
  /\ call.op = "isErr"
  /\ call.args = <<Fn("isTen")>>
  /\ heap[call.self] = OkResult(Num(10))
  /\ Returned(Bool(FALSE))
  /\ trace = <<>>

-----------------------------------------------------------------------------
\* C15: inspectOk / inspectErr are taps.  inspectOk on an Ok and inspectErr
\* on an Err invoke the callback once on the held value, inspectOk on an Err
\* and inspectErr on an Ok do not invoke it; in all four cases the call
\* constructs nothing, leaves every result as it was, and returns the
\* receiver itself, whatever the callback returned.
C15_Tap ==
  [][call'.op \in {"inspectOk", "inspectErr"} =>
       /\ heap' = heap
       /\ result' = [kind |-> "return", value |-> Ref(call'.self)]
       /\ IF (call'.op = "inspectOk") = IsOkResult(heap, call'.self)
          THEN /\ Len(trace') = 1
               /\ trace'[1].fn = call'.args[1]
               /\ trace'[1].arg = Held(call'.self)
          ELSE trace' = <<>>]_vars

\* Ok(10).inspectOk(swap): swap returned 'five', the call returned the
\* receiver, still Ok(10).
C15_Witness ==
  /\ call.op = "inspectOk"
  /\ call.args = <<Fn("swap")>>
  /\ heap[call.self] = OkResult(Num(10))
  /\ InvokedOnce(Fn("swap"), Num(10))
  /\ trace[1].ret = Str("five")
  /\ Returned(Ref(call.self))

-----------------------------------------------------------------------------
\* The held values of the elements of xs that are of class cls, element by
\* element from the front.
RECURSIVE HeldOfClass(_, _)
HeldOfClass(xs, cls) ==
  IF xs = <<>> THEN <<>>
  ELSE IF heap[Head(xs).id].cls = cls
  THEN <<Held(Head(xs).id)>> \o HeldOfClass(Tail(xs), cls)
  ELSE HeldOfClass(Tail(xs), cls)

\* C16: unwrapErrs(xs) returns the array of the held values of the Err
\* elements of xs, in the order of xs and once per occurrence, skipping every
\* Ok; unwrapOks(xs) returns the array of the held values of the Ok elements,
\* in the order of xs, skipping every Err.  Neither throws nor constructs a
\* result, and the array is empty when xs has no element of the variant.
C16_UnwrapList ==
  /\ call.op = "unwrapErrs" =>
       /\ Returned(Array(HeldOfClass(call.args[1].items, "ErrResult")))
       /\ (\A i \in DOMAIN call.args[1].items : IsOkResult(heap, call.args[1].items[i].id))
            => Returned(Array(<<>>))
  /\ call.op = "unwrapOks" =>
       /\ Returned(Array(HeldOfClass(call.args[1].items, "OkResult")))
       /\ (\A i \in DOMAIN call.args[1].items : ~IsOkResult(heap, call.args[1].items[i].id))
            => Returned(Array(<<>>))

\* unwrapErrs([Err('five'), Ok(..), Err(10)]) returned ['five', 10]: a string
\* and a number, in the order of the list.
C16_Witness ==
  /\ call.op = "unwrapErrs"
  /\ Len(call.args[1].items) = 3
  /\ heap[call.args[1].items[1].id] = ErrResult(Str("five"))
  /\ IsOkResult(heap, call.args[1].items[2].id)
  /\ heap[call.args[1].items[3].id] = ErrResult(Num(10))
  /\ Returned(Array(<<Str("five"), Num(10)>>))

-----------------------------------------------------------------------------
\* The list handed to throwErrs holds an Err.
C17_HasErr == \E i \in DOMAIN call.args[1].items : ~IsOkResult(heap, call.args[1].items[i].id)

\* C17: throwErrs(xs, message, errorClass) throws exactly when xs holds an
\* Err.  With no Err in xs, the empty xs included, it returns undefined;
\* with one Err or more it throws one error, of class errorClass, or of
\* class Error when errorClass is omitted.
C17_ThrowsIffErr ==
  call.op = "throwErrs" =>
    /\ trace = <<>>
    /\ IF C17_HasErr
       THEN /\ result.kind = "throw"
            /\ result.cls = IF call.args[3] = Undefined THEN "Error" ELSE call.args[3].s
       ELSE Returned(Undefined)

\* throwErrs of a list with two Errs threw one TypeError.
C17_Witness ==
  /\ call.op = "throwErrs"
  /\ call.args[3] = Str("TypeError")
  /\ \E i, j \in DOMAIN call.args[1].items :
       /\ i < j
       /\ call.args[1].items[i] # call.args[1].items[j]
       /\ ~IsOkResult(heap, call.args[1].items[i].id)
       /\ ~IsOkResult(heap, call.args[1].items[j].id)
  /\ result.kind = "throw"
  /\ result.cls = "TypeError"

-----------------------------------------------------------------------------
\* One line ' - ' + String(v) per value of vals, in order, a newline between
\* two lines and none after the last.
RECURSIVE Bullets(_)
Bullets(vals) ==
  IF vals = <<>> THEN ""
  ELSE IF Len(vals) = 1 THEN " - " \o ToString(vals[1])
  ELSE Bullets(SubSeq(vals, 1, Len(vals) - 1)) \o "\n - " \o ToString(vals[Len(vals)])

\* The message argument is a label that needs its colon added.
C18_PlainLabel ==
  /\ call.args[2] # Undefined
  /\ Len(call.args[2].s) > 0
  /\ SubSeq(call.args[2].s, Len(call.args[2].s), Len(call.args[2].s)) # ":"

\* C18: when throwErrs throws and was given a non-empty message m that does
\* not end in a colon, the error's message is m, a colon, a newline, and the
\* lines ' - ' + String(e), one per Err of xs in the order of xs, with a
\* newline between lines and none at the end; when the message argument is
\* omitted, the same with 'Errors found' for m.
C18_MessageFormat ==
  (call.op = "throwErrs" /\ result.kind = "throw") =>
    LET bullets == Bullets(HeldOfClass(call.args[1].items, "ErrResult"))
    IN  /\ C18_PlainLabel => result.message = call.args[2].s \o ":" \o "\n" \o bullets
        /\ call.args[2] = Undefined => result.message = "Errors found:\n" \o bullets

\* throwErrs([Err(10), Ok(..), Err('five')], 'errors') threw with the message
\* of the test: the label with its colon, then two bullets.
C18_Witness ==
  /\ call.op = "throwErrs"
  /\ call.args[2] = Str("errors")
  /\ Len(call.args[1].items) = 3
  /\ heap[call.args[1].items[1].id] = ErrResult(Num(10))
  /\ IsOkResult(heap, call.args[1].items[2].id)
  /\ heap[call.args[1].items[3].id] = ErrResult(Str("five"))
  /\ result.kind = "throw"
  /\ result.message = "errors:\n - 10\n - five"

-----------------------------------------------------------------------------
\* The message argument is a label that already has its colon.
C19_ColonLabel ==
  /\ call.args[2] # Undefined
  /\ Len(call.args[2].s) > 0
  /\ SubSeq(call.args[2].s, Len(call.args[2].s), Len(call.args[2].s)) = ":"

\* C19: when throwErrs throws and was given a message m that ends in a
\* colon, the error's message is m, a newline and the bullets, with no second
\* colon; when it was given the empty string, the error's message is the
\* bullets alone, with no label line and not the default label.
C19_LabelEdges ==
  (call.op = "throwErrs" /\ result.kind = "throw") =>
    LET bullets == Bullets(HeldOfClass(call.args[1].items, "ErrResult"))
    IN  /\ C19_ColonLabel => result.message = call.args[2].s \o "\n" \o bullets
        /\ call.args[2] = Str("") => result.message = bullets

\* throwErrs([Err(10)], '') threw with the one bullet for its message.
C19_Witness ==
  /\ call.op = "throwErrs"
  /\ call.args[2] = Str("")
  /\ HeldOfClass(call.args[1].items, "ErrResult") = <<Num(10)>>
  /\ result.kind = "throw"
  /\ result.message = " - 10"

-----------------------------------------------------------------------------
\* C20: flattenResult removes one level.  Given an Ok holding a result it
\* returns that inner result itself, Ok or Err, constructing nothing; given
\* an Err holding e it returns an Err holding e.  It never throws.
C20_Flatten ==
  call.op = "flattenResult" =>
    /\ trace = <<>>
    /\ result.kind = "return"
    /\ IF IsOkResult(heap, call.self)
       THEN /\ Returned(heap[call.self].ok)
            /\ result.value.id < call.self
       ELSE ReturnedResult(ErrResult(heap[call.self].err))

\* flattenResult(Ok(Err(10))) returned the inner Err(10).
C20_Witness ==
  /\ call.op = "flattenResult"
  /\ IsOkResult(heap, call.self)
  /\ Returned(heap[call.self].ok)
  /\ heap[result.value.id] = ErrResult(Num(10))

-----------------------------------------------------------------------------
\* C21: class Result is abstract.  new Result() throws an Error with the
\* message 'Result is abstract, use Ok() or Err()' and constructs nothing, so
\* that every result that exists is an OkResult or an ErrResult; Ok(v) and
\* Err(v) never throw and return a new result holding v; and the body class
\* Result gives isOk, isErr and each other abstract method, applied to any
\* result, throws an Error with the message 'Abstract method Result#<name>'.
C21_Abstract ==
  /\ \A i \in DOMAIN heap : heap[i].cls \in {"OkResult", "ErrResult"}
  /\ call.op = "new Result" => Threw("Error", "Result is abstract, use Ok() or Err()")
  /\ call.op = "Ok" =>
       Returned(Ref(Len(heap))) /\ heap[Len(heap)] = OkResult(call.args[1])
  /\ call.op = "Err" =>
       Returned(Ref(Len(heap))) /\ heap[Len(heap)] = ErrResult(call.args[1])
  /\ call.op = "Result.prototype" =>
       Threw("Error", "Abstract method Result#" \o call.args[1].s)

\* With an Ok and an Err constructed, new Result() threw.
C21_Witness ==
  /\ call.op = "new Result"
  /\ \E i, j \in DOMAIN heap : IsOkResult(heap, i) /\ ~IsOkResult(heap, j)
  /\ Threw("Error", "Result is abstract, use Ok() or Err()")

-----------------------------------------------------------------------------
\* The operations that are not made to throw.
TotalOps ==
  {"isOk", "isErr", "map", "mapErr", "mapOr", "inspectOk", "inspectErr", "unwrapOr",
   "and", "andThen", "or", "orElse", "match", "flattenResult", "unwrapErrs", "unwrapOks"}

\* C22: isOk, isErr, map, mapErr, mapOr, inspectOk, inspectErr, unwrapOr, and,
\* andThen, or, orElse, match, flattenResult, unwrapErrs and unwrapOks never
\* throw, whichever variant they are called on and whatever variants a list
\* holds: every call of one of them returns.
C22_Total == call.op \in TotalOps => result.kind = "return"

\* unwrapOks of a list that holds an Err and an Ok returned, although unwrap
\* on the Err would have thrown.
C22_Witness ==
  /\ call.op = "unwrapOks"
  /\ \E i, j \in DOMAIN call.args[1].items :
       /\ ~IsOkResult(heap, call.args[1].items[i].id)
       /\ IsOkResult(heap, call.args[1].items[j].id)
  /\ Result_unwrap(heap, call.args[1].items[1].id, Undefined).result.kind = "throw"
  /\ result.kind = "return"

-----------------------------------------------------------------------------
\* What the callback fn returns for arg.
Applied(fn, arg) == Invoke(heap, fn, arg).result.value

\* C23: map then mapOr.  When Ok(v).map(f) has returned, mapOr(g, fallback)
\* on what it returned gives g(f(v)) for every g and every fallback, plain
\* value or function: g is invoked once, on f(v), the fallback is neither
\* returned nor invoked, and no result is constructed.
C23_MapMapOr ==
  (call.op = "map" /\ IsOkResult(heap, call.self)) =>
    \A g \in ValueFns, fallback \in Payloads \cup ValueFns :
      LET fv == Applied(call.args[1], heap[call.self].ok)
          r == Result_mapOr(heap, result.value.id, g, fallback)
      IN  /\ r.result = [kind |-> "return", value |-> Applied(g, fv)]
          /\ r.trace = <<[fn |-> g, arg |-> fv, ret |-> Applied(g, fv)]>>
          /\ r.heap = heap

\* Ok(10).map(swap) returned an Ok holding 'five', and mapOr(swap, id) on it
\* gives 10, which is swap('five') and not the fallback's 'five'.
C23_Witness ==
  /\ call.op = "map"
  /\ call.args = <<Fn("swap")>>
  /\ heap[call.self] = OkResult(Num(10))
  /\ ReturnedResult(OkResult(Str("five")))
  /\ Result_mapOr(heap, result.value.id, Fn("swap"), Fn("id")).result.value = Num(10)

-----------------------------------------------------------------------------
\* The call did what the effect e is: same outcome, same invocations, same
\* results in existence.
SameAs(e) == e.result = result /\ e.trace = trace /\ e.heap = heap

\* C24: the deprecated names behave as the current ones.  Given functions,
\* isOkAnd(p) does what isOk(p) does, isErrAnd(p) what isErr(p) does,
\* mapOrElse(fn, dfn) what mapOr(fn, dfn) does and unwrapOrElse(fn) what
\* unwrapOr(fn) does, on either variant: the same value returned, the same
\* callback invoked on the same argument as many times.  unwrapErrors,
\* unwrapResults and unwrapAndThrowErrors do what unwrapErrs, unwrapOks and
\* throwErrs do.
C24_Aliases ==
  /\ call.op = "isOkAnd" => SameAs(Result_isOk(heap, call.self, call.args[1]))
  /\ call.op = "isErrAnd" => SameAs(Result_isErr(heap, call.self, call.args[1]))
  /\ call.op = "mapOrElse" =>
       SameAs(Result_mapOr(heap, call.self, call.args[1], call.args[2]))
  /\ call.op = "unwrapOrElse" => SameAs(Result_unwrapOr(heap, call.self, call.args[1]))
  /\ call.op = "unwrapErrs" => SameAs(unwrapErrors(heap, call.args[1].items))
  /\ call.op = "unwrapOks" => SameAs(unwrapResults(heap, call.args[1].items))
  /\ call.op = "throwErrs" =>
       SameAs(unwrapAndThrowErrors(heap, call.args[1].items, call.args[2], call.args[3]))

\* Err(10).unwrapOrElse(swap) invoked swap once and returned 'five', as
\* unwrapOr(swap) does.
C24_Witness ==
  /\ call.op = "unwrapOrElse"
  /\ call.args = <<Fn("swap")>>
  /\ heap[call.self] = ErrResult(Num(10))
  /\ InvokedOnce(Fn("swap"), Num(10))
  /\ Returned(Str("five"))
  /\ Result_unwrapOr(heap, call.self, Fn("swap")).result.value = Str("five")

-----------------------------------------------------------------------------
\* The invocations of fn among those of tr.
InvocationsOf(fn, tr) == SelectSeq(tr, LAMBDA t : t.fn = fn)

\* C25: andThen is match with the handlers (t) => fn(t) and (e) => Err(e), as
\* the remarks on match say.  Whatever r.andThen(fn) returned, that match on
\* r returns a result of the same variant holding the same value, and
\* invokes fn as many times, on the same argument.
C25_AndThenByMatch ==
  call.op = "andThen" =>
    LET m == andThenByMatch(heap, call.self, call.args[1])
    IN  /\ result.kind = "return" /\ m.result.kind = "return"
        /\ m.heap[m.result.value.id] = heap[result.value.id]
        /\ [i \in DOMAIN InvocationsOf(call.args[1], m.trace) |->
              [fn |-> m.trace[i].fn, arg |-> m.trace[i].arg]]
             = [i \in DOMAIN trace |-> [fn |-> trace[i].fn, arg |-> trace[i].arg]]

\* Err(10).andThen(Ok) returned an Err holding 10 without invoking Ok, and
\* the match returns an Err holding 10 through its err handler alone.
C25_Witness ==
  /\ call.op = "andThen"
  /\ call.args = <<Fn("Ok")>>
  /\ heap[call.self] = ErrResult(Num(10))
  /\ ReturnedResult(ErrResult(Num(10)))
  /\ trace = <<>>
  /\ Len(andThenByMatch(heap, call.self, Fn("Ok")).trace) = 1
  /\ andThenByMatch(heap, call.self, Fn("Ok")).trace[1].fn = Fn("(e) => Err(e)")

-----------------------------------------------------------------------------
\* C26: a chain r.andThen(f1).andThen(f2)...andThen(fn) short-circuits.  The
\* callbacks invoked are f1, f2, ... in that order, each at most once, with
\* no gap; fk is invoked exactly when r and what every earlier callback
\* returned are Ok, and is given the value the Ok before it holds.  When r is
\* an Err holding e, or a callback returns an Err holding e, no later
\* callback is invoked and the chain returns an Err holding that e; when
\* every step is Ok the chain returns what fn returned.
C26_ShortCircuit ==
  call.op = "andThenChain" =>
    LET fns == call.args[1].items
        n == Len(trace)
    IN  /\ n <= Len(fns)
        /\ \A i \in 1..n : trace[i].fn = fns[i]
        /\ n > 0 => IsOkResult(heap, call.self) /\ trace[1].arg = heap[call.self].ok
        /\ \A i \in 1..(n - 1) :
             /\ IsOkResult(heap, trace[i].ret.id)
             /\ trace[i + 1].arg = heap[trace[i].ret.id].ok
        /\ IF ~IsOkResult(heap, call.self)
           THEN n = 0 /\ ReturnedResult(ErrResult(heap[call.self].err))
           ELSE /\ n >= 1
                /\ IF IsOkResult(heap, trace[n].ret.id)
                   THEN n = Len(fns) /\ Returned(trace[n].ret)
                   ELSE ReturnedResult(ErrResult(heap[trace[n].ret.id].err))

\* Ok(10).andThen(errSwap).andThen(Ok): errSwap was invoked on 10 and returned
\* Err('five'), Ok was never invoked, and the chain returned an Err holding
\* 'five'.
C26_Witness ==
  /\ call.op = "andThenChain"
  /\ call.args = <<Array(<<Fn("errSwap"), Fn("Ok")>>)>>
  /\ heap[call.self] = OkResult(Num(10))
  /\ InvokedOnce(Fn("errSwap"), Num(10))
  /\ ReturnedResult(ErrResult(Str("five")))

-----------------------------------------------------------------------------
\* How many of the first i elements of xs are of the variant of xs[i].
RankInVariant(h, xs, i) ==
  Cardinality({j \in 1..i : IsOkResult(h, xs[j].id) = IsOkResult(h, xs[i].id)})

\* C27: unwrapOks and unwrapErrs split a list between them.  For the list xs
\* either was called on, both return, every element of xs gives its held
\* value to one place of one of the two arrays (the k-th Ok of xs to the k-th
\* place of unwrapOks(xs), the k-th Err to the k-th place of unwrapErrs(xs)),
\* the lengths of the two arrays add up to the length of xs, and the call
\* leaves every result, those of xs included, as it was.
C27_Partition ==
  [][call'.op \in {"unwrapOks", "unwrapErrs"} =>
       LET xs == call'.args[1].items
           oks == IF call'.op = "unwrapOks" THEN [result |-> result']
                  ELSE unwrapOks(heap', xs)
           errs == IF call'.op = "unwrapErrs" THEN [result |-> result']
                   ELSE unwrapErrs(heap', xs)
       IN  /\ heap' = heap
           /\ oks.result.kind = "return" /\ errs.result.kind = "return"
           /\ Len(oks.result.value.items) + Len(errs.result.value.items) = Len(xs)
           /\ \A i \in DOMAIN xs :
                IF IsOkResult(heap, xs[i].id)
                THEN oks.result.value.items[RankInVariant(heap, xs, i)] = heap[xs[i].id].ok
                ELSE errs.result.value.items[RankInVariant(heap, xs, i)] = heap[xs[i].id].err]_vars

\* unwrapOks of a list of three with one Ok returned one value, and
\* unwrapErrs of the same list returns the other two.
C27_Witness ==
  /\ call.op = "unwrapOks"
  /\ Len(call.args[1].items) = 3
  /\ result.kind = "return"
  /\ Len(result.value.items) = 1
  /\ Len(unwrapErrs(heap, call.args[1].items).result.value.items) = 2

-----------------------------------------------------------------------------
\* The effect e returned a result of the variant and with the held value of
\* the result the call returned.
SameResultAs(e) ==
  /\ result.kind = "return" /\ e.result.kind = "return"
  /\ e.heap[e.result.value.id] = heap[result.value.id]

\* C28: andThen and Ok obey the monad laws, results compared by variant and
\* held value.  Left identity: what Ok(v).andThen(f) returned is what f(v)
\* returns.  Right identity: what r.andThen(Ok) returned is as r, Ok or Err.
\* Associativity: what r.andThen(f).andThen(g) returned is what
\* r.andThen((v) => f(v).andThen(g)) returns.
C28_MonadLaws ==
  /\ (call.op = "andThen" /\ IsOkResult(heap, call.self)) =>
       SameResultAs(Invoke(heap, call.args[1], heap[call.self].ok))
  /\ (call.op = "andThen" /\ call.args[1] = Fn("Ok")) =>
       /\ result.kind = "return"
       /\ heap[result.value.id] = heap[call.self]
  /\ (call.op = "andThenChain" /\ Len(call.args[1].items) = 2) =>
       SameResultAs(Result_andThen(heap, call.self,
                                   Composed(call.args[1].items[1], call.args[1].items[2])))

\* Ok(10).andThen(okSwap).andThen(errSwap) returned an Err holding 10, and so
\* does Ok(10).andThen((v) => okSwap(v).andThen(errSwap)).
C28_Witness ==
  /\ call.op = "andThenChain"
  /\ call.args = <<Array(<<Fn("okSwap"), Fn("errSwap")>>)>>
  /\ heap[call.self] = OkResult(Num(10))
  /\ ReturnedResult(ErrResult(Num(10)))
  /\ LET e == Result_andThen(heap, call.self, Composed(Fn("okSwap"), Fn("errSwap")))
     IN  e.heap[e.result.value.id] = ErrResult(Num(10))

-----------------------------------------------------------------------------
\* C29: flattenResult is andThen with the identity.  For a nested result r,
\* an Ok holding an Ok, an Ok holding an Err, or an Err, what flattenResult(r)
\* returned has the variant and the held value of what
\* r.andThen((inner) => inner) returns.
C29_FlattenIsBind ==
  call.op = "flattenResult" => SameResultAs(Result_andThen(heap, call.self, Fn("id")))

\* flattenResult(Ok(Ok(10))) returned the inner Ok(10), which is also what
\* andThen with the identity returns.
C29_Witness ==
  /\ call.op = "flattenResult"
  /\ IsOkResult(heap, call.self)
  /\ ReturnedResult(OkResult(Num(10)))
  /\ Result_andThen(heap, call.self, Fn("id")).result.value = result.value

-----------------------------------------------------------------------------
\* C30: the earlier unwrapErrors, which visits each element with inspectErr
\* and pushes the held value onto an accumulator, and the current unwrapErrs,
\* which filters by isErr() and maps unwrapErr(), agree: for the list
\* unwrapErrs was called on, the earlier function returns the array
\* unwrapErrs returned, the same values in the same order, and constructs no
\* result either.
C30_SameCollection ==
  call.op = "unwrapErrs" =>
    LET old == unwrapErrors_Earlier(heap, call.args[1].items)
    IN  old.result = result /\ old.heap = heap

\* unwrapErrs([Err(10), Ok(..), Err('five')]) returned [10, 'five'], and so
\* does the earlier unwrapErrors.
C30_Witness ==
  /\ call.op = "unwrapErrs"
  /\ Len(call.args[1].items) = 3
  /\ IsOkResult(heap, call.args[1].items[2].id)
  /\ Returned(Array(<<Num(10), Str("five")>>))
  /\ unwrapErrors_Earlier(heap, call.args[1].items).result.value.items
       = <<Num(10), Str("five")>>

====
